---- MODULE Spec2Model ----
(* Write-ahead-logged key/value store of distributedDataStore/main.go:      *)
(* the Database type, its log file on disk, the replayer and the flusher.   *)
EXTENDS Integers, Sequences, FiniteSets, TLC

VARIABLES
    data,         \* db.data: function from the keys present to their values
    writeAhead,   \* db.writeAhead: sequence of LogEntry
    logFilePtr,   \* db.logFilePtr: "nil", "open", or "closed" (handle whose Close failed)
    logFileSize,  \* db.logFileSize
    lock,         \* db.logFileLock: "free" or the holder
    files,        \* the disk: function from the file names that exist to their bytes
    now,          \* wall clock, in seconds (time.Now() at second precision)
    alive,        \* FALSE once log.Fatal / sugar.Fatal has ended the process
    pc,           \* per caller thread: position inside Set
    key,          \* per thread: argument key of the Set in progress
    value,        \* per thread: argument value of the Set in progress
    val,          \* per thread: local val of Set (line 73)
    ok,           \* per thread: local ok of Set (line 73)
    ret,          \* what the last Set to return returned ("none" before any)
    replayErr,    \* what the last ReplayWriteAheadLog returned ("none" before any)
    rd,           \* the key a Get in progress is reading, or "idle"
    phase,        \* where main is: "new", "open" (OpenLogFile done), "closed"
    logIn,        \* how the log file found on disk at startup was made up
    cnt           \* how many times each bounded operation has run

vars == <<data, writeAhead, logFilePtr, logFileSize, lock, files, now, alive,
          pc, key, value, val, ok, ret, replayErr, rd, phase, logIn, cnt>>

-----------------------------------------------------------------------------
(* Bounds of the model *)

\* calls of Set, Delete and ReplayWriteAheadLog, and ticks of the flusher
MaxCalls == 3
\* failed system calls and restarts of the process
MaxFaults == 1
\* seconds the clock runs through
MaxClock == 2
\* complete records in a log file found on disk
MaxRecords == 2

-----------------------------------------------------------------------------
(* Program constants *)

INSERT == 0
UPDATE == 1
DELETE == 2

\* main.go:240, db.logFile. File names are numbers: LogFile is the logical
\* path, and the name t >= 1 is "<logFile>_<timestamp t>".
LogFile == 0
\* main.go:241, NewDatabase(logFile, 32)
RotateSize == 32

Threads == {"t1", "t2"}

KeyA == <<97>>
KeyB == <<98>>
Keys == {KeyA, KeyB}
\* Two inserts of ValX bring the file to RotateSize exactly; one record
\* with ValY is beyond it.
ValX == [i \in 1..7 |-> 120]
ValY == [i \in 1..26 |-> 121]
Values == {ValX, ValY}

NoEntry == [op |-> INSERT, key |-> <<>>, value |-> <<>>]

-----------------------------------------------------------------------------
(* LogEntry codec (package contract, generated from contract/log.proto)      *)

\* proto.Marshal of a LogEntry: tagged fields, zero values omitted.
Marshal(e) ==
    (IF e.op # 0 THEN <<8, e.op>> ELSE <<>>)
    \o (IF e.key # <<>> THEN <<18, Len(e.key)>> \o e.key ELSE <<>>)
    \o (IF e.value # <<>> THEN <<26, Len(e.value)>> \o e.value ELSE <<>>)

RECURSIVE ParseFields(_, _, _)
ParseFields(b, i, e) ==
    IF i > Len(b) THEN [err |-> FALSE, entry |-> e]
    ELSE IF i + 1 > Len(b) THEN [err |-> TRUE, entry |-> e]
    ELSE IF b[i] = 8 THEN
        IF b[i + 1] > DELETE THEN [err |-> TRUE, entry |-> e]
        ELSE ParseFields(b, i + 2, [e EXCEPT !.op = b[i + 1]])
    ELSE IF b[i] \in {18, 26} THEN
        IF i + 1 + b[i + 1] > Len(b) THEN [err |-> TRUE, entry |-> e]
        ELSE LET s == SubSeq(b, i + 2, i + 1 + b[i + 1])
             IN  ParseFields(b, i + 2 + b[i + 1],
                             IF b[i] = 18 THEN [e EXCEPT !.key = s]
                                          ELSE [e EXCEPT !.value = s])
    ELSE [err |-> TRUE, entry |-> e]

\* proto.Unmarshal into a fresh LogEntry: fails on a truncated field, an
\* invalid tag or an invalid operation.
Unmarshal(item) == ParseFields(item, 1, NoEntry)

-----------------------------------------------------------------------------
(* Framing *)

\* binary.LittleEndian.PutUint32
PutUint32(n) ==
    <<n % 256, (n \div 256) % 256, (n \div 65536) % 256, (n \div 16777216) % 256>>

\* binary.LittleEndian.Uint32
Uint32(b) == b[1] + 256 * b[2] + 65536 * b[3] + 16777216 * b[4]

\* The bytes Set writes for one entry: lines 101-114.
Frame(e) == PutUint32(Len(Marshal(e))) \o Marshal(e)

\* the frames of the entries es, one after the other
RECURSIVE Frames(_)
Frames(es) == IF es = <<>> THEN <<>> ELSE Frame(Head(es)) \o Frames(Tail(es))

\* (*os.File).ReadAt(buf, off) with len(buf) = n on a file holding f.
\* A short read is io.EOF; reading zero bytes never fails.
ReadAt(f, off, n) ==
    IF n = 0 THEN [err |-> "nil", bytes |-> <<>>]
    ELSE IF off + n <= Len(f)
         THEN [err |-> "nil", bytes |-> SubSeq(f, off + 1, off + n)]
         ELSE [err |-> "EOF", bytes |-> <<>>]

-----------------------------------------------------------------------------
(* Maps *)

EmptyMap == <<>>

\* db.data[k] = v
MapSet(d, k, v) == [x \in DOMAIN d \cup {k} |-> IF x = k THEN v ELSE d[x]]

\* delete(db.data, k)
MapDelete(d, k) == [x \in DOMAIN d \ {k} |-> d[x]]

-----------------------------------------------------------------------------
(* Replay: ReplayWriteAheadLog, lines 189-223 *)

\* mutant of ApplyEntry: the first record of a key wins
ApplyEntryFirst(d, e) == IF e.key \in DOMAIN d THEN d ELSE MapSet(d, e.key, e.value)

\* mutant of ApplyEntry: the value is added to the one already stored
ApplyEntryAppend(d, e) ==
    MapSet(d, e.key, (IF e.key \in DOMAIN d THEN d[e.key] ELSE <<>>) \o e.value)

\* line 219: the record is applied whatever its operation is
ApplyEntry(d, e) == MapSet(d, e.key, e.value)

\* mutant of DecodeAndApply: a payload that does not decode is skipped
DecodeAndApplySkip(d, item) ==
    LET u == Unmarshal(item)
    IN  IF u.err THEN [err |-> "nil", data |-> d]
        ELSE [err |-> "nil", data |-> ApplyEntry(d, u.entry)]

\* lines 213-220: decode one item and apply it
DecodeAndApply(d, item) ==
    LET u == Unmarshal(item)
    IN  IF u.err THEN [err |-> "CorruptEntry", data |-> d]
        ELSE [err |-> "nil", data |-> ApplyEntry(d, u.entry)]

\* mutant of OnReadError: io.EOF is returned like any other error
OnReadErrorStrict(err, d) == [err |-> err, data |-> d]

\* lines 194-199 and 206-211: what a failed ReadAt makes the loop do
OnReadError(err, d) ==
    IF err = "EOF" THEN [err |-> "nil", data |-> d]
    ELSE [err |-> err, data |-> d]

\* lines 191-221: the loop, from offset off with map d
RECURSIVE ReplayLoop(_, _, _)
ReplayLoop(f, off, d) ==
    LET hdr == ReadAt(f, off, 4)
    IN  IF hdr.err # "nil" THEN OnReadError(hdr.err, d)
        ELSE LET itemSize == Uint32(hdr.bytes)
                 body == ReadAt(f, off + 4, itemSize)
             IN  IF body.err # "nil" THEN OnReadError(body.err, d)
                 ELSE LET r == DecodeAndApply(d, body.bytes)
                      IN  IF r.err # "nil" THEN r
                          ELSE ReplayLoop(f, off + 4 + itemSize, r.data)

-----------------------------------------------------------------------------
(* The disk *)

\* what a failed write may leave behind: none or some of the bytes
TornLens == {0, 2}

\* os.Rename(from, to): replaces an existing destination
Rename(f, from, to) ==
    [n \in (DOMAIN f \ {from}) \cup {to} |-> IF n = to THEN f[from] ELSE f[n]]

\* os.OpenFile(name, O_WRONLY|O_CREATE|O_APPEND): creates the file if missing
OpenFile(f, name) ==
    [n \in DOMAIN f \cup {name} |-> IF n \in DOMAIN f THEN f[n] ELSE <<>>]

\* a write through the O_APPEND handle of db.logFile
AppendTo(f, bytes) == [f EXCEPT ![LogFile] = @ \o bytes]

CanCall == cnt.calls < MaxCalls
Called == [cnt EXCEPT !.calls = @ + 1]
CanFail == cnt.faults < MaxFaults
Failed == [cnt EXCEPT !.faults = @ + 1]

\* mutant of LockFree: Lock returns whoever holds the mutex
LockIgnored(l) == TRUE

\* db.logFileLock.Lock() returns once nobody holds the mutex
LockFree(l) == l = "free"

-----------------------------------------------------------------------------
(* NewDatabase, lines 34-42 *)

NoInput == [kind |-> "none", recs |-> <<>>, tail |-> <<>>, after |-> <<>>]
ZeroCnt == [calls |-> 0, ticks |-> 0, faults |-> 0]

NewDatabase ==
    /\ data = EmptyMap
    /\ writeAhead = <<>>
    /\ logFilePtr = "nil"
    /\ logFileSize = 0
    /\ lock = "free"
    /\ pc = [t \in Threads |-> "idle"]
    /\ key = [t \in Threads |-> <<>>]
    /\ value = [t \in Threads |-> <<>>]
    /\ val = [t \in Threads |-> <<>>]
    /\ ok = [t \in Threads |-> FALSE]
    /\ ret = "none"
    /\ replayErr = "none"
    /\ rd = "idle"
    /\ phase = "new"
    /\ alive = TRUE

Init ==
    /\ NewDatabase
    /\ files = EmptyMap
    /\ now = 1
    /\ logIn = NoInput
    /\ cnt = ZeroCnt

-----------------------------------------------------------------------------
(* OpenLogFile, lines 44-52; CloseLogFile, lines 54-66 *)

\* main, lines 244-247: a failed open is fatal
OpenLogFile ==
    /\ alive /\ phase = "new"
    /\ \/ /\ files' = OpenFile(files, LogFile)
          /\ logFilePtr' = "open"
          /\ phase' = "open"
          /\ UNCHANGED <<alive, cnt>>
       \/ /\ CanFail
          /\ alive' = FALSE
          /\ cnt' = Failed
          /\ UNCHANGED <<files, logFilePtr, phase>>
    /\ UNCHANGED <<data, writeAhead, logFileSize, lock, now, pc, key, value,
                   val, ok, ret, replayErr, rd, logIn>>

\* The handle CloseLogFile leaves and the error it returns. A handle whose
\* Close failed stays in db.logFilePtr and is of no further use.
CloseOutcomes(ptr, canFail) ==
    IF ptr = "nil" THEN {[ptr |-> "nil", err |-> "nil"]}
    ELSE IF ptr = "closed" THEN {[ptr |-> "closed", err |-> "err"]}
    ELSE {[ptr |-> "nil", err |-> "nil"]}
         \cup (IF canFail THEN {[ptr |-> "closed", err |-> "err"]} ELSE {})

\* main, lines 248-253: the deferred close; its failure is fatal
CloseLogFile ==
    /\ alive /\ phase = "open"
    /\ \E o \in CloseOutcomes(logFilePtr, CanFail) :
          /\ logFilePtr' = o.ptr
          /\ alive' = (o.err = "nil")
          /\ cnt' = IF o.err = "nil" \/ logFilePtr = "closed" THEN cnt ELSE Failed
    /\ phase' = "closed"
    /\ UNCHANGED <<data, writeAhead, logFileSize, lock, files, now, pc, key,
                   value, val, ok, ret, replayErr, rd, logIn>>

-----------------------------------------------------------------------------
(* Set, lines 68-129 *)

\* mutant of LogEntryOf: every entry is an INSERT
LogEntryOfInsert(found, k, v) == [op |-> INSERT, key |-> k, value |-> v]

\* lines 75-87: the entry Set builds from what it found in the map
LogEntryOf(found, k, v) ==
    [op |-> IF found THEN UPDATE ELSE INSERT, key |-> k, value |-> v]

\* mutant of IsNoOp: a present key is always updated
IsNoOpNever(d, k, v) == FALSE

\* lines 73-91: nothing to do when the key holds an equal value
IsNoOp(d, k, v) == k \in DOMAIN d /\ d[k] = v

\* deferred Unlock and return
Return(t, r) ==
    /\ pc' = [pc EXCEPT ![t] = "idle"]
    /\ ret' = r
    /\ key' = [key EXCEPT ![t] = <<>>]
    /\ value' = [value EXCEPT ![t] = <<>>]
    /\ val' = [val EXCEPT ![t] = <<>>]
    /\ ok' = [ok EXCEPT ![t] = FALSE]
    /\ lock' = "free"

\* lines 69-94. Callers follow main: the traffic starts after OpenLogFile
\* (lines 244-262) and no call starts after the deferred CloseLogFile.
SetBegin(t, k, v) ==
    /\ alive /\ pc[t] = "idle" /\ LockFree(lock)
    /\ phase = "open"
    /\ CanCall
    /\ cnt' = Called
    /\ IF IsNoOp(data, k, v)
       THEN /\ Return(t, "nil")
            /\ UNCHANGED writeAhead
       ELSE /\ lock' = t
            /\ key' = [key EXCEPT ![t] = k]
            /\ value' = [value EXCEPT ![t] = v]
            /\ ok' = [ok EXCEPT ![t] = k \in DOMAIN data]
            /\ val' = [val EXCEPT ![t] = IF k \in DOMAIN data THEN data[k] ELSE <<>>]
            /\ pc' = [pc EXCEPT ![t] = "apply"]
            /\ writeAhead' = Append(writeAhead, LogEntryOf(k \in DOMAIN data, k, v))
            /\ UNCHANGED ret
    /\ UNCHANGED <<data, logFilePtr, logFileSize, files, now, alive,
                   replayErr, rd, phase, logIn>>

\* line 97
SetApply(t) ==
    /\ alive /\ pc[t] = "apply"
    /\ data' = MapSet(data, key[t], value[t])
    /\ pc' = [pc EXCEPT ![t] = "writeLen"]
    /\ UNCHANGED <<writeAhead, logFilePtr, logFileSize, lock, files, now, alive,
                   key, value, val, ok, ret, replayErr, rd, phase, logIn, cnt>>

\* lines 100-112
SetWriteLen(t) ==
    /\ alive /\ pc[t] = "writeLen"
    /\ LET buf == PutUint32(Len(Marshal(LogEntryOf(ok[t], key[t], value[t]))))
       IN  \/ /\ logFilePtr = "nil"
              /\ Return(t, "nil")
              /\ UNCHANGED <<files, cnt>>
           \/ /\ logFilePtr = "open"
              /\ files' = AppendTo(files, buf)
              /\ pc' = [pc EXCEPT ![t] = "writeData"]
              /\ UNCHANGED <<ret, lock, key, value, val, ok, cnt>>
           \/ /\ logFilePtr = "open" /\ CanFail
              /\ \E n \in TornLens : files' = AppendTo(files, SubSeq(buf, 1, n))
              /\ Return(t, "err")
              /\ cnt' = Failed
           \/ /\ logFilePtr = "closed"
              /\ Return(t, "err")
              /\ UNCHANGED <<files, cnt>>
    /\ UNCHANGED <<data, writeAhead, logFilePtr, logFileSize, now, alive,
                   replayErr, rd, phase, logIn>>

\* mutant of rotateLogFile: the size is not reset after a rotation
rotateLogFileNoReset(f, size) ==
    /\ logFilePtr' = "open"
    /\ files' = OpenFile(Rename(f, LogFile, now), LogFile)
    /\ logFileSize' = size
    /\ UNCHANGED <<alive, cnt>>

\* rotateLogFile, lines 131-153, on disk f with db.logFileSize = size
rotateLogFile(f, size) ==
    \/ /\ CanFail                       \* Close fails: lines 132-135
       /\ logFilePtr' = "closed"
       /\ files' = f
       /\ logFileSize' = size
       /\ cnt' = Failed
       /\ UNCHANGED alive
    \/ /\ CanFail                       \* Rename fails: lines 140-143
       /\ logFilePtr' = "nil"
       /\ files' = f
       /\ logFileSize' = size
       /\ cnt' = Failed
       /\ alive' = FALSE
    \/ /\ CanFail                       \* OpenLogFile fails: lines 146-149
       /\ logFilePtr' = "nil"
       /\ files' = Rename(f, LogFile, now)
       /\ logFileSize' = size
       /\ cnt' = Failed
       /\ alive' = FALSE
    \/ /\ logFilePtr' = "open"          \* lines 132-152
       /\ files' = OpenFile(Rename(f, LogFile, now), LogFile)
       /\ logFileSize' = 0
       /\ UNCHANGED <<alive, cnt>>

\* mutant of NeedsRotation: the file is rotated only beyond the threshold
NeedsRotationStrict(size) == size > RotateSize

\* line 123
NeedsRotation(size) == size >= RotateSize

\* lines 114-128
SetWriteData(t) ==
    /\ alive /\ pc[t] = "writeData"
    /\ LET logData == Marshal(LogEntryOf(ok[t], key[t], value[t]))
           size == logFileSize + Len(logData) + 4
       IN  \/ /\ logFilePtr = "open"
              /\ IF NeedsRotation(size)
                 THEN rotateLogFile(AppendTo(files, logData), size)
                 ELSE /\ files' = AppendTo(files, logData)
                      /\ logFileSize' = size
                      /\ UNCHANGED <<logFilePtr, alive, cnt>>
              /\ IF alive' THEN Return(t, "nil")      \* log.Fatal does not return
                 ELSE UNCHANGED <<pc, ret, lock, key, value, val, ok>>
           \/ /\ logFilePtr = "open" /\ CanFail
              /\ \E n \in TornLens : files' = AppendTo(files, SubSeq(logData, 1, n))
              /\ Return(t, "err")
              /\ cnt' = Failed
              /\ UNCHANGED <<logFilePtr, logFileSize, alive>>
           \/ /\ logFilePtr # "open"
              /\ Return(t, "err")
              /\ UNCHANGED <<files, logFilePtr, logFileSize, alive, cnt>>
    /\ UNCHANGED <<data, writeAhead, now, replayErr, rd, phase, logIn>>

-----------------------------------------------------------------------------
(* Get, lines 155-161; Delete, lines 163-168 *)

\* what Get returns for key k when it reads map d
GetResult(d, k) ==
    IF k \in DOMAIN d THEN [value |-> d[k], err |-> "nil"]
                      ELSE [value |-> <<>>, err |-> "key not found"]

\* Get takes no lock: it is called, reads the map at some later moment
\* (GetResult of the map as it then is) and returns.
GetBegin(k) ==
    /\ alive /\ rd = "idle"
    /\ phase = "open"
    /\ rd' = k
    /\ UNCHANGED <<data, writeAhead, logFilePtr, logFileSize, lock, files, now,
                   alive, pc, key, value, val, ok, ret, replayErr, phase, logIn, cnt>>

GetEnd ==
    /\ alive /\ rd # "idle"
    /\ rd' = "idle"
    /\ UNCHANGED <<data, writeAhead, logFilePtr, logFileSize, lock, files, now,
                   alive, pc, key, value, val, ok, ret, replayErr, phase, logIn, cnt>>

Delete(k) ==
    /\ alive /\ LockFree(lock)
    /\ phase = "open"
    /\ CanCall
    /\ cnt' = Called
    /\ data' = MapDelete(data, k)
    /\ UNCHANGED <<writeAhead, logFilePtr, logFileSize, lock, files, now, alive,
                   pc, key, value, val, ok, ret, replayErr, rd, phase, logIn>>

-----------------------------------------------------------------------------
(* ReplayWriteAheadLog, lines 170-224 *)

\* main, lines 244-259: replay follows OpenLogFile and precedes the traffic
ReplayWriteAheadLog ==
    /\ alive /\ LockFree(lock)
    /\ phase = "open" /\ writeAhead = <<>>
    /\ CanCall
    /\ cnt' = Called
    /\ IF LogFile \notin DOMAIN files
       THEN /\ replayErr' = "OpenError"         \* lines 177-180
            /\ UNCHANGED data
       ELSE LET r == ReplayLoop(files[LogFile], 0, data)
            IN  /\ data' = r.data
                /\ replayErr' = r.err
    /\ UNCHANGED <<writeAhead, logFilePtr, logFileSize, lock, files, now, alive,
                   pc, key, value, val, ok, ret, rd, phase, logIn>>

-----------------------------------------------------------------------------
(* The flusher goroutine of main, lines 290-318 *)

RECURSIVE MarshalAll(_)
MarshalAll(es) ==
    IF es = <<>> THEN <<>> ELSE Marshal(Head(es)) \o MarshalAll(Tail(es))

FlusherTick ==
    /\ alive /\ LockFree(lock) /\ phase # "new"
    /\ CanCall
    /\ \/ /\ logFilePtr = "open"                \* Write and Sync succeed
          /\ files' = AppendTo(files, MarshalAll(writeAhead))
          /\ cnt' = [cnt EXCEPT !.calls = @ + 1, !.ticks = @ + 1]
          /\ UNCHANGED <<alive, lock>>
       \/ /\ logFilePtr = "open" /\ CanFail     \* Write or Sync fails: Fatal
          /\ \E n \in {0, Len(MarshalAll(writeAhead))} :
                files' = AppendTo(files, SubSeq(MarshalAll(writeAhead), 1, n))
          /\ cnt' = [cnt EXCEPT !.calls = @ + 1, !.ticks = @ + 1, !.faults = @ + 1]
          /\ alive' = FALSE
          /\ lock' = "flusher"
       \/ /\ logFilePtr # "open"                \* Write on a nil or closed handle
          /\ cnt' = [cnt EXCEPT !.calls = @ + 1, !.ticks = @ + 1]
          /\ alive' = FALSE
          /\ lock' = "flusher"
          /\ UNCHANGED files
    /\ UNCHANGED <<data, writeAhead, logFilePtr, logFileSize, now, pc, key,
                   value, val, ok, ret, replayErr, rd, phase, logIn>>

-----------------------------------------------------------------------------
(* The environment: the clock, and the process ending and starting again *)

\* A second passes. Timestamps only name rotated files, so the clock is
\* left alone until a rotated file carries the current one.
ClockTick ==
    /\ now < MaxClock /\ now \in DOMAIN files
    /\ now' = now + 1
    /\ UNCHANGED <<data, writeAhead, logFilePtr, logFileSize, lock, files, alive,
                   pc, key, value, val, ok, ret, replayErr, rd, phase, logIn, cnt>>

\* The process ends (exit, Fatal or crash) and main runs again on the same disk.
Restart ==
    /\ CanFail
    /\ cnt' = Failed
    /\ data' = EmptyMap
    /\ writeAhead' = <<>>
    /\ logFilePtr' = "nil"
    /\ logFileSize' = 0
    /\ lock' = "free"
    /\ pc' = [t \in Threads |-> "idle"]
    /\ key' = [t \in Threads |-> <<>>]
    /\ value' = [t \in Threads |-> <<>>]
    /\ val' = [t \in Threads |-> <<>>]
    /\ ok' = [t \in Threads |-> FALSE]
    /\ ret' = "none"
    /\ replayErr' = "none"
    /\ rd' = "idle"
    /\ phase' = "new"
    /\ alive' = TRUE
    /\ UNCHANGED <<files, now, logIn>>

\* The whole log: the rotated segments, oldest first, then the active file.
RECURSIVE Segments(_, _)
Segments(f, t) ==
    IF t > MaxClock THEN (IF LogFile \in DOMAIN f THEN f[LogFile] ELSE <<>>)
    ELSE (IF t \in DOMAIN f THEN f[t] ELSE <<>>) \o Segments(f, t + 1)

WholeLog(f) == Segments(f, 1)

-----------------------------------------------------------------------------

Next ==
    \/ OpenLogFile
    \/ CloseLogFile
    \/ \E t \in Threads, k \in Keys, v \in Values : SetBegin(t, k, v)
    \/ \E t \in Threads : SetApply(t)
    \/ \E t \in Threads : SetWriteLen(t)
    \/ \E t \in Threads : SetWriteData(t)
    \/ \E k \in Keys : GetBegin(k)
    \/ GetEnd
    \/ \E k \in Keys : Delete(k)
    \/ ReplayWriteAheadLog
    \/ FlusherTick
    \/ ClockTick
    \/ Restart

Spec == Init /\ [][Next]_vars

-----------------------------------------------------------------------------
(* Properties of the running store *)

\* sub occurs in f as a run of consecutive bytes
Occurs(sub, f) ==
    \E i \in 0..(Len(f) - Len(sub)) : SubSeq(f, i + 1, i + Len(sub)) = sub

EndsWith(f, sub) ==
    Len(sub) <= Len(f) /\ SubSeq(f, Len(f) - Len(sub) + 1, Len(f)) = sub

\* the framed record of a Set of (k, v) is in some log file
Logged(k, v) ==
    \E n \in DOMAIN files, o \in {INSERT, UPDATE} :
        Occurs(Frame([op |-> o, key |-> k, value |-> v]), files[n])

\* the entry and the frame of the Set thread t is in
EntryOf(t) == LogEntryOf(ok[t], key[t], value[t])
FrameOf(t) == Frame(EntryOf(t))

\* the map entry of thread t's key as it was when its Set began
Before(t, d) ==
    IF ok[t] THEN MapSet(d, key[t], val[t]) ELSE MapDelete(d, key[t])

\* C1. Write-ahead ordering: in every reachable state, also one a concurrent
\* Get sees and one where the log file is not open or a write has failed,
\* every key/value binding of the map has its record in the log.
WriteAheadOrdering == \A k \in DOMAIN data : Logged(k, data[k])

\* C2. Replay equivalence: between calls of Set and Delete on an opened store,
\* the map equals the replay of the log written so far into an empty map.
ReplayEquivalence ==
    (alive /\ lock = "free" /\ phase = "open" /\ cnt.faults = 0 /\ cnt.ticks = 0)
        => data = ReplayLoop(WholeLog(files), 0, EmptyMap).data

\* C3. Delete is logged: a Delete(k) on an opened store appends a DELETE
\* entry for k to the log file.
DeleteIsLogged ==
    [][\A k \in Keys :
          (/\ Delete(k) /\ k \in DOMAIN data /\ logFilePtr = "open"
           /\ cnt.faults = 0 /\ cnt.ticks = 0)
              => files'[LogFile] = files[LogFile]
                     \o Frame([op |-> DELETE, key |-> k, value |-> <<>>])]_vars

\* C4. Append failure aborts the mutation: a Set that returns an error
\* because a write failed leaves the map as it was before the call.
AppendFailureAborts ==
    [][\A t \in Threads :
          (pc[t] \in {"writeLen", "writeData"} /\ pc'[t] = "idle" /\ ret' = "err")
              => data' = Before(t, data)]_vars

\* C5. No-op stability: with the log file open and its writes succeeding, a
\* Set(k, v) that finds k absent or with another value appends the bytes of
\* exactly one framed entry, in two writes, installs v and returns success;
\* a Set(k, v) that finds v at k, as the second of two in a row does, returns
\* success at once and changes neither the map, the log nor the size.
NoOpStability ==
    [][\A t \in Threads :
          /\ \A k \in Keys, v \in Values :
                SetBegin(t, k, v) =>
                    IF k \in DOMAIN data /\ data[k] = v
                    THEN /\ pc'[t] = "idle" /\ ret' = "nil" /\ lock' = "free"
                         /\ UNCHANGED <<data, files, logFileSize, writeAhead>>
                    ELSE /\ pc'[t] = "apply"
                         /\ UNCHANGED <<data, files, logFileSize>>
          /\ SetApply(t) => files' = files /\ data'[key[t]] = value[t]
          /\ (pc[t] = "writeLen" /\ pc'[t] = "writeData")
                => files' = AppendTo(files, SubSeq(FrameOf(t), 1, 4))
          /\ (pc[t] = "writeData" /\ pc'[t] = "idle" /\ ret' = "nil")
                => /\ \E n \in {LogFile, now} \cap DOMAIN files' :
                         files'[n] = files[LogFile] \o Marshal(EntryOf(t))
                   /\ EndsWith(files[LogFile] \o Marshal(EntryOf(t)), FrameOf(t))
                   /\ data' = data /\ data[key[t]] = value[t]]_vars

\* two Sets of the same key and value in a row have run: one entry is logged
NoOpWitness ==
    /\ cnt = [calls |-> 2, ticks |-> 0, faults |-> 0]
    /\ lock = "free" /\ ret = "nil"
    /\ Len(writeAhead) = 1
    /\ data = [k \in {KeyA} |-> ValX]
    /\ files = [n \in {LogFile} |-> Frame(writeAhead[1])]
    /\ logFileSize = Len(Frame(writeAhead[1]))

FlusherOnlySyncs == [][FlusherTick => files' = files]_vars

\* C12. Exclusive ownership of the file handle: the handle is closed only
\* when no Set is inside its critical section using it, and a tick of the
\* flusher never runs against a handle that shutdown has closed or that is nil.
HandleOwnedUnderLock ==
    [][/\ CloseLogFile => lock = "free"
       /\ FlusherTick => logFilePtr = "open"]_vars

\* C13. Get never races with a mutation of the map: in no reachable state is
\* a Get reading the map while a Set is inside its critical section at the
\* assignment to the map (line 97).
GetExcludesMutation == \A t \in Threads : pc[t] = "apply" => rd = "idle"

\* C14. Concurrent Sets are serialised: while a Set of the running process is
\* between taking the lock and returning, no other Set is inside, its entry is the last one appended to
\* the write-ahead list, its mutation is the last one applied to the map, and
\* when it writes its payload the file ends with its own length prefix. So,
\* with the file open and every write succeeding, the file holds the frames
\* of the Sets whole and in the order the map mutations were applied.
ConcurrentSetsSerialised ==
    /\ \A t \in Threads : (alive /\ pc[t] # "idle") =>
          /\ lock = t
          /\ \A u \in Threads \ {t} : pc[u] = "idle"
          /\ writeAhead # <<>> /\ writeAhead[Len(writeAhead)] = EntryOf(t)
          /\ pc[t] # "apply" => data[key[t]] = value[t]
          /\ pc[t] = "writeData"
                => EndsWith(files[LogFile], SubSeq(FrameOf(t), 1, 4))
    /\ (lock = "free" /\ phase = "open" /\ cnt.faults = 0 /\ cnt.ticks = 0)
          => EndsWith(Frames(writeAhead), files[LogFile])

\* two Sets of different keys have run one after the other: the log holds
\* their two frames in the order of the mutations
SerialisedWitness ==
    /\ lock = "free" /\ ret = "nil" /\ cnt = [calls |-> 2, ticks |-> 0, faults |-> 0]
    /\ Len(writeAhead) = 2 /\ writeAhead[1].key # writeAhead[2].key
    /\ writeAhead[1].value = ValY /\ writeAhead[2].value = ValX
    /\ DOMAIN data = Keys
    /\ files[LogFile] = Frame(writeAhead[2])
    /\ WholeLog(files) = Frames(writeAhead)

\* the entry the Set in progress appended to the write-ahead list (line 94)
LastEntry == writeAhead[Len(writeAhead)]

\* C15. Set classifies by the content of the map, comparing values byte for
\* byte, whatever Sets, Deletes and replays came before: a key that is absent
\* gives an INSERT entry, a key holding another value an UPDATE entry, a key
\* holding the same value no entry and no change; the value of the entry is
\* installed in the map and, when the writes succeed, its frame is what the
\* log file receives.
SetClassifiesByContent ==
    [][\A t \in Threads :
          /\ \A k \in Keys, v \in Values :
                SetBegin(t, k, v) =>
                    IF k \notin DOMAIN data
                    THEN /\ pc'[t] = "apply"
                         /\ writeAhead' = Append(writeAhead,
                                [op |-> INSERT, key |-> k, value |-> v])
                    ELSE IF data[k] # v
                    THEN /\ pc'[t] = "apply"
                         /\ writeAhead' = Append(writeAhead,
                                [op |-> UPDATE, key |-> k, value |-> v])
                    ELSE /\ pc'[t] = "idle" /\ ret' = "nil"
                         /\ UNCHANGED <<writeAhead, data, files>>
          /\ SetApply(t) => data' = MapSet(data, LastEntry.key, LastEntry.value)
          /\ (pc[t] = "writeData" /\ pc'[t] = "idle" /\ ret' = "nil")
                => \E n \in {LogFile, now} \cap DOMAIN files' :
                      EndsWith(files'[n], Frame(LastEntry))]_vars

\* a key loaded by replay after a restart has been set to another value: the
\* only entry of the new process is an UPDATE, and its frame follows the
\* INSERT of the earlier process in the log file
ClassifiesWitness ==
    /\ lock = "free" /\ ret = "nil" /\ replayErr = "nil"
    /\ writeAhead = <<[op |-> UPDATE, key |-> KeyA, value |-> ValY]>>
    /\ data = [k \in {KeyA} |-> ValY]
    /\ now \in DOMAIN files
    /\ files[now] = Frame([op |-> INSERT, key |-> KeyA, value |-> ValX])
                        \o Frame(LastEntry)

\* C16. Size counter: whenever the lock is free the size counter is strictly
\* below RotateSize, because every Set that brings it to RotateSize or beyond
\* rotates the file and resets it to 0 before it returns.
SizeBelowThreshold == (alive /\ lock = "free") => logFileSize < RotateSize

\* a rotation has failed at its first step and the process runs on: only
\* rotateLogFile leaves a handle whose Close failed in a live process
RotationFailed == alive /\ logFilePtr = "closed"

\* C18. Rotation failure is fatal: once a step of a rotation has failed, no
\* later Set changes the map, and none returns success having changed it.
RotationFailureIsFatal ==
    [][\A t \in Threads :
          /\ (RotationFailed /\ SetApply(t)) => data' = data
          /\ (RotationFailed /\ (SetWriteLen(t) \/ SetWriteData(t)))
                => ret' # "nil"]_vars

\* C19. Rotation never destroys an earlier segment: every rotated file that
\* exists before a step exists after it with the same bytes, so a rotation
\* always renames the active file to a name no rotated file carries. Stated
\* for the runs in which no system call has failed.
SegmentsAreKept ==
    [][cnt'.faults = 0 =>
          \A n \in DOMAIN files \ {LogFile} :
              n \in DOMAIN files' /\ files'[n] = files[n]]_vars

\* C20. The size counter tracks the real file: whenever the lock is free and
\* the log file is open, the counter equals the number of bytes of the file
\* at the logical path. Stated for the first of the cases of the claim, the
\* store that has opened its log file and has not yet run a mutating Set.
SizeTracksFile ==
    (alive /\ lock = "free" /\ logFilePtr = "open" /\ writeAhead = <<>>)
        => logFileSize = Len(files[LogFile])

-----------------------------------------------------------------------------
(* Replay of a log file found on disk at startup. The file is made of       *)
(* complete records, then nothing (kind "clean"), a torn trailing record    *)
(* (kind "torn"), or a record whose payload does not decode followed by     *)
(* further complete records (kind "corrupt").                               *)

ValZ == <<122>>

InputEntries ==
    { [op |-> INSERT, key |-> KeyA, value |-> ValX],
      [op |-> UPDATE, key |-> KeyA, value |-> ValZ],
      [op |-> DELETE, key |-> KeyA, value |-> <<>>],
      [op |-> INSERT, key |-> KeyB, value |-> ValX],
      [op |-> DELETE, key |-> KeyB, value |-> ValZ] }

SeqsUpTo(S, n) == UNION {[1..m -> S] : m \in 0..n}

\* a record cut short: 1-3 bytes of its length prefix, or the whole prefix
\* and fewer payload bytes than it announces
TornRecord == Frame([op |-> UPDATE, key |-> KeyA, value |-> ValX])
TornTails ==
    {SubSeq(TornRecord, 1, n) : n \in {1, 2, 3, 4, 7, Len(TornRecord) - 1}}

\* complete records whose payload does not decode: an invalid tag, a field
\* longer than the payload, an invalid operation
CorruptRecords ==
    {PutUint32(2) \o <<255, 1>>, PutUint32(2) \o <<18, 5>>, PutUint32(2) \o <<8, 9>>}

LogInputs ==
    {[kind |-> "clean", recs |-> r, tail |-> <<>>, after |-> <<>>] :
        r \in SeqsUpTo(InputEntries, MaxRecords)}
    \cup {[kind |-> "torn", recs |-> r, tail |-> x, after |-> <<>>] :
        r \in SeqsUpTo(InputEntries, MaxRecords), x \in TornTails}
    \cup {[kind |-> "corrupt", recs |-> r, tail |-> x, after |-> a] :
        r \in SeqsUpTo(InputEntries, MaxRecords), x \in CorruptRecords,
        a \in SeqsUpTo(InputEntries, 1)}

InputBytes(in) == Frames(in.recs) \o in.tail \o Frames(in.after)

InitReplay ==
    /\ NewDatabase
    /\ logIn \in LogInputs
    /\ files = [n \in {LogFile} |-> InputBytes(logIn)]
    /\ now = 1
    /\ cnt = ZeroCnt

NextReplay ==
    \/ OpenLogFile
    \/ ReplayWriteAheadLog

SpecReplay == InitReplay /\ [][NextReplay]_vars

\* the entries of es applied in order to map d, each by line 219
RECURSIVE ApplyAll(_, _)
ApplyAll(es, d) ==
    IF es = <<>> THEN d ELSE ApplyAll(Tail(es), ApplyEntry(d, Head(es)))

Replayed == replayErr # "none"

\* C7. Truncated-tail tolerance: replaying N complete records followed by a
\* torn trailing record (1-3 bytes of a length prefix, or a whole prefix and
\* fewer payload bytes than it announces) returns no error and leaves the map
\* that the N complete records alone give.
TruncatedTailTolerated ==
    (logIn.kind = "torn" /\ Replayed) =>
        /\ replayErr = "nil"
        /\ data = ApplyAll(logIn.recs, EmptyMap)

TruncatedTailWitness ==
    /\ logIn.kind = "torn" /\ Replayed
    /\ Len(logIn.recs) = MaxRecords
    /\ Len(logIn.tail) > 4
    /\ DOMAIN data = Keys

\* C8. Corrupt payload rejection: when the length prefix and the payload of a
\* record are fully present and the payload does not decode, replay returns an
\* error, applies no record at or after that one, and the map is the one the
\* records before it give.
CorruptPayloadRejected ==
    (logIn.kind = "corrupt" /\ Replayed) =>
        /\ replayErr = "CorruptEntry"
        /\ data = ApplyAll(logIn.recs, EmptyMap)

CorruptPayloadWitness ==
    /\ logIn.kind = "corrupt" /\ Replayed
    /\ Len(logIn.recs) = 1 /\ Len(logIn.after) = 1
    /\ logIn.after[1].key \notin DOMAIN data
    /\ DOMAIN data # {}

\* C9. Replay idempotence: replaying a well-formed log again, onto the map
\* the first replay produced, leaves that map as it is.
ReplayIdempotent ==
    [][(logIn.kind = "clean" /\ replayErr = "nil" /\ ReplayWriteAheadLog)
        => data' = data]_vars

ReplayTwiceWitness ==
    /\ logIn.kind = "clean" /\ replayErr = "nil"
    /\ cnt.calls = 2
    /\ Len(logIn.recs) = MaxRecords
    /\ data # EmptyMap

\* the entries of es applied in order to map d, each by its operation
RECURSIVE ApplyByOp(_, _)
ApplyByOp(es, d) ==
    IF es = <<>> THEN d
    ELSE ApplyByOp(Tail(es),
                   IF Head(es).op = DELETE THEN MapDelete(d, Head(es).key)
                   ELSE MapSet(d, Head(es).key, Head(es).value))

\* C10. Replay honours the operation of each record: INSERT and UPDATE set
\* key = value, DELETE removes the key; a key whose last record is a DELETE
\* is absent after the replay.
ReplayHonoursOperation ==
    (logIn.kind = "clean" /\ replayErr = "nil") =>
        data = ApplyByOp(logIn.recs, EmptyMap)

\* C17. Replay applies the records in the order of their offsets and a later
\* record overrides an earlier one: after the replay of a well-formed log of
\* INSERT and UPDATE records into an empty map, the keys of the map are the
\* keys that have a record, and each holds the value of its last record.
ReplayLastWins ==
    LET recs == logIn.recs
    IN  (/\ logIn.kind = "clean" /\ replayErr = "nil"
         /\ \A i \in DOMAIN recs : recs[i].op \in {INSERT, UPDATE})
            => /\ DOMAIN data = {recs[i].key : i \in DOMAIN recs}
               /\ \A k \in DOMAIN data :
                     \E i \in DOMAIN recs :
                        /\ recs[i].key = k /\ data[k] = recs[i].value
                        /\ \A j \in DOMAIN recs : j > i => recs[j].key # k

\* a log of two records of one key has been replayed: the second value is kept
ReplayLastWinsWitness ==
    /\ logIn.kind = "clean" /\ replayErr = "nil"
    /\ logIn.recs = <<[op |-> INSERT, key |-> KeyA, value |-> ValX],
                      [op |-> UPDATE, key |-> KeyA, value |-> ValZ]>>
    /\ data = [k \in {KeyA} |-> ValZ]

====
